---- MODULE Spec2Model ----
(***************************************************************************)
(* Model of packages/measured-node-metrics/lib/nodeOsMetrics.js: the       *)
(* catalog of OS metric factories, the createOSMetrics registration driver *)
(* and the refresh callback of the node.os.cpu.all-cores-avg CachedGauge.  *)
(***************************************************************************)
EXTENDS Integers, Naturals, Sequences, FiniteSets, TLC

VARIABLES
    \* ---- createOSMetrics (lines 107-114) and direct catalog use ----
    pc,                          \* "idle" | "running" | "returned" | "threw"
    argDimensions,               \* the customDimensions argument as passed
    argInterval,                 \* the reportingIntervalInSeconds argument as passed
    customDimensions,            \* the local after line 108
    reportingIntervalInSeconds,  \* the local after line 109
    idx,                         \* position of forEach in Object.keys(nodeOsMetrics)
    factoryCalls,                \* every factory invocation: [name, args]
    registerCalls,               \* every metricsRegistry.register call made
    registry,                    \* the entries the registry accepted
    failedAt,                    \* index of the register call that threw, 0 if none
    heapNext,                    \* next fresh object identity
    built,                       \* CachedGauges built by direct use of the catalog
    \* ---- the CachedGauge refresh callback (lines 79-90) ----
    now,                         \* clock, in milliseconds
    gauge,                       \* the CachedGauge instances under refresh
    refresh,                     \* the refresh invocations, in invocation order
    process,                     \* "alive" | "crashed"
    tornDown                     \* the registry has been shut down

driverVars == <<pc, argDimensions, argInterval, customDimensions,
                reportingIntervalInSeconds, idx, factoryCalls, registerCalls,
                registry, failedAt, heapNext, built>>
refreshVars == <<now, gauge, refresh, process, tornDown>>
vars == <<driverVars, refreshVars>>

----------------------------------------------------------------------------
\* JavaScript values

\* An optional argument: <<>> is undefined, <<v>> is the value v.
Undefined == <<>>
Val(v) == <<v>>

\* Truthiness of an optional number: undefined and 0 are falsy, every other
\* number (negative ones too) is truthy.
Falsy(x) == x = Undefined \/ x[1] = 0

\* Truthiness of an optional object: only undefined is falsy.
FalsyObject(x) == x = Undefined

\* x || d
OrDefaultUndefinedOnly(x, d) == IF x = Undefined THEN d ELSE x[1]
OrDefault(x, d) == IF Falsy(x) THEN d ELSE x[1]

----------------------------------------------------------------------------
\* Program constants

DEFAULT_NODE_OS_METRICS_REPORTING_INTERVAL_IN_SECONDS == 30
DefaultUpdateIntervalInSeconds == 30
DefaultSampleTimeInSeconds == 5

CpuName == "node.os.cpu.all-cores-avg"

\* Object.keys(nodeOsMetrics): the keys in insertion order.
nodeOsMetricsKeysMissing ==
    << "node.os.loadavg.1m", "node.os.loadavg.5m", "node.os.loadavg.15m",
       "node.os.freemem", "node.os.totalmem", "node.os.cpu.all-cores-avg" >>
nodeOsMetricsKeys ==
    << "node.os.loadavg.1m", "node.os.loadavg.5m", "node.os.loadavg.15m",
       "node.os.freemem", "node.os.totalmem", "node.os.uptime",
       "node.os.cpu.all-cores-avg" >>

\* The OS read each plain Gauge wraps.
GaugeRead(name) ==
    CASE name = "node.os.loadavg.1m"  -> "os.loadavg()[0]"
      [] name = "node.os.loadavg.5m"  -> "os.loadavg()[1]"
      [] name = "node.os.loadavg.15m" -> "os.loadavg()[2]"
      [] name = "node.os.freemem"     -> "os.freemem()"
      [] name = "node.os.totalmem"    -> "os.totalmem()"
      [] name = "node.os.uptime"      -> "os.uptime()"

\* nodeOsMetrics['node.os.cpu.all-cores-avg'](u, s), lines 75-91: the
\* CachedGauge it builds, with the sample time its refresh closure captured.
CpuFactoryCoupled(u, s) ==
    [ kind |-> "CachedGauge",
      updateIntervalInSeconds |-> OrDefault(u, DefaultUpdateIntervalInSeconds),
      sampleTimeInSeconds |->
          IF u = Undefined THEN DefaultSampleTimeInSeconds
          ELSE OrDefault(s, DefaultSampleTimeInSeconds) ]
CpuFactory(u, s) ==
    [ kind |-> "CachedGauge",
      updateIntervalInSeconds |-> OrDefault(u, DefaultUpdateIntervalInSeconds),
      sampleTimeInSeconds |-> OrDefault(s, DefaultSampleTimeInSeconds) ]

\* nodeOsMetrics[name](u, s): the plain factories take no parameters and
\* ignore any argument.
Factory(name, u, s) ==
    IF name = CpuName THEN CpuFactory(u, s)
    ELSE [ kind |-> "Gauge", reads |-> GaugeRead(name) ]

----------------------------------------------------------------------------
\* Inputs

IntervalArgs == { Undefined, Val(-5), Val(0), Val(10), Val(30), Val(60) }
SampleArgs == { Undefined, Val(-5), Val(0), Val(5), Val(10) }
CallerObject(tags) == [ ref |-> 1, tags |-> tags ]
DimensionArgs == { Undefined, Val(CallerObject("{}")), Val(CallerObject("{env: prod}")) }
MaxBuilt == 1

----------------------------------------------------------------------------
\* createOSMetrics

\* The argument the driver hands each factory on line 112: none.
DriverFactoryArgPlumbed(interval) == Val(interval)
DriverFactoryArg(interval) == Undefined

\* What a throw of metricsRegistry.register does to the driver: nothing
\* catches it in the forEach callback or in createOSMetrics (lines 111-113).
OnRegisterThrowSwallowed == "running"
OnRegisterThrow == "threw"

\* Lines 107-109: entry and defaulting of the two optional arguments.
Call(d, i) ==
    /\ pc = "idle"
    /\ argDimensions' = d
    /\ argInterval' = i
    /\ customDimensions' =
          IF FalsyObject(d) THEN [ ref |-> heapNext, tags |-> "{}" ] ELSE d[1]
    /\ heapNext' = IF FalsyObject(d) THEN heapNext + 1 ELSE heapNext
    /\ reportingIntervalInSeconds' =
          OrDefault(i, DEFAULT_NODE_OS_METRICS_REPORTING_INTERVAL_IN_SECONDS)
    /\ idx' = 1
    /\ pc' = "running"
    /\ UNCHANGED <<factoryCalls, registerCalls, registry, failedAt, built>>
    /\ UNCHANGED refreshVars

\* Line 112, one forEach iteration: the factory runs first (argument
\* evaluation), then register, which the registry accepts or rejects.
Iterate(ok) ==
    /\ pc = "running"
    /\ idx <= Len(nodeOsMetricsKeys)
    /\ LET metricName == nodeOsMetricsKeys[idx]
           a == DriverFactoryArg(reportingIntervalInSeconds)
           call == [ name |-> metricName,
                     metric |-> Factory(metricName, a, Undefined),
                     dimensions |-> customDimensions,
                     interval |-> reportingIntervalInSeconds ]
       IN /\ factoryCalls' = Append(factoryCalls, [ name |-> metricName, arg |-> a ])
          /\ registerCalls' = Append(registerCalls, call)
          /\ IF ok
             THEN /\ registry' = Append(registry, call)
                  /\ UNCHANGED <<pc, failedAt>>
             ELSE /\ pc' = OnRegisterThrow
                  /\ failedAt' = IF failedAt = 0 THEN idx ELSE failedAt
                  /\ UNCHANGED registry
    /\ idx' = idx + 1
    /\ UNCHANGED <<argDimensions, argInterval, customDimensions,
                   reportingIntervalInSeconds, heapNext, built>>
    /\ UNCHANGED refreshVars

\* Line 114: forEach is exhausted and createOSMetrics returns undefined.
Return ==
    /\ pc = "running"
    /\ idx > Len(nodeOsMetricsKeys)
    /\ pc' = "returned"
    /\ UNCHANGED <<argDimensions, argInterval, customDimensions,
                   reportingIntervalInSeconds, idx, factoryCalls, registerCalls,
                   registry, failedAt, heapNext, built>>
    /\ UNCHANGED refreshVars

\* Direct use of the exported catalog: nodeOsMetrics[CpuName](u, s). A call
\* runs to completion, so none happens inside a running createOSMetrics.
DirectFactory(u, s) ==
    /\ pc # "running"
    /\ Len(built) < MaxBuilt
    /\ built' = Append(built, [ u |-> u, s |-> s, metric |-> Factory(CpuName, u, s) ])
    /\ UNCHANGED <<pc, argDimensions, argInterval, customDimensions,
                   reportingIntervalInSeconds, idx, factoryCalls, registerCalls,
                   registry, failedAt, heapNext>>
    /\ UNCHANGED refreshVars

----------------------------------------------------------------------------
\* The refresh of the node.os.cpu.all-cores-avg CachedGauge (lines 79-90)

MaxTick == 4       \* largest tick count of an aggregate sample
SmallTick == 1     \* the same, where several refreshes are in flight
MaxRefresh == 2    \* refresh invocations in one behaviour
MaxTime == 5       \* last instant of the clock, in milliseconds

\* The aggregate samples cpuAverage() can return: idle ticks are part of
\* the total ticks.
Samples(maxTick) ==
    { m \in [ idle : 0..maxTick, total : 0..maxTick ] : m.idle <= m.total }

\* The outcome of one cpuAverage() call: Val(sample), or Throws when the OS
\* read fails.
Throws == <<>>
CpuAverageOutcomes(maxTick) == { Throws } \cup { Val(m) : m \in Samples(maxTick) }

\* An exact percentage, num / den with den > 0.
Percent(num, den) == [ num |-> num, den |-> den ]

\* calculateCpuUsagePercent(startMeasure, endMeasure) of ./utils/CpuUtils:
\* 0 when the total did not advance, else 100 * (1 - idleDelta / totalDelta)
\* clamped to [0, 100].
calculateCpuUsagePercent(startMeasure, endMeasure) ==
    LET idleDelta == endMeasure.idle - startMeasure.idle
        totalDelta == endMeasure.total - startMeasure.total
        num == 100 * (totalDelta - idleDelta)
    IN IF totalDelta <= 0 THEN Percent(0, 1)
       ELSE IF num < 0 THEN Percent(0, 1)
       ELSE IF num > 100 * totalDelta THEN Percent(100, 1)
       ELSE Percent(num, totalDelta)

\* Line 86: the arguments, in the order the callback passes them.
PercentageCPUSwapped(startMeasure, endMeasure) ==
    calculateCpuUsagePercent(endMeasure, startMeasure)
PercentageCPU(startMeasure, endMeasure) ==
    calculateCpuUsagePercent(startMeasure, endMeasure)

\* Lines 82 and 86: startMeasure is a const of the executor's own scope, so
\* the timer callback of refresh r reads the sample of refresh r.
StartMeasureShared(r) ==
    LET held == { q \in 1..Len(refresh) : refresh[q].startMeasure # Undefined }
        last == CHOOSE q \in held : \A o \in held : o <= q
    IN refresh[last].startMeasure[1]
StartMeasureOf(r) == refresh[r].startMeasure[1]

\* Line 88: the delay handed to setTimeout, which counts in milliseconds,
\* is sampleTimeInSeconds itself.
SampleDelay(g) == gauge[g].sampleTimeInSeconds

\* Lines 79-83 and 88, one invocation of the value-producing callback of
\* gauge g: the Promise executor takes the start sample and arms the timer. A
\* throw of cpuAverage() inside the executor rejects the promise. The
\* CachedGauge invokes the callback on its own schedule while it is live.
RefreshCallback(g, m, maxRefresh) ==
    /\ process = "alive"
    /\ ~tornDown
    /\ Len(refresh) < maxRefresh
    /\ refresh' = Append(refresh,
          IF m = Throws
          THEN [ g |-> g, promise |-> "rejected", value |-> Undefined,
                 startMeasure |-> Undefined, timer |-> Undefined ]
          ELSE [ g |-> g, promise |-> "pending", value |-> Undefined,
                 startMeasure |-> m,
                 timer |-> Val([ setAt |-> now, delay |-> SampleDelay(g) ]) ])
    /\ UNCHANGED <<now, gauge, process, tornDown>>
    /\ UNCHANGED driverVars

\* Lines 83-88, the timer callback of refresh r: it runs once the delay has
\* elapsed, takes the end sample, computes and resolves. A throw of
\* cpuAverage() here is thrown out of the timer callback: nothing catches
\* it, the promise is never settled and the process dies of the uncaught
\* exception (the runtime's default). The timer's handle is not kept, so
\* nothing can clear it: the callback runs whether or not the registry has
\* been torn down.
SampleTimeout(r, m) ==
    /\ process = "alive"
    /\ r \in 1..Len(refresh)
    /\ refresh[r].timer # Undefined
    /\ now >= refresh[r].timer[1].setAt + refresh[r].timer[1].delay
    /\ IF m = Throws
       THEN /\ refresh' = [ refresh EXCEPT ![r].timer = Undefined,
                                           ![r].startMeasure = Undefined ]
            /\ process' = "crashed"
       ELSE /\ refresh' = [ refresh EXCEPT
                  ![r].timer = Undefined,
                  ![r].startMeasure = Undefined,
                  ![r].promise = "resolved",
                  ![r].value = Val(PercentageCPU(StartMeasureOf(r), m[1])) ]
            /\ UNCHANGED process
    /\ UNCHANGED <<now, gauge, tornDown>>
    /\ UNCHANGED driverVars

\* The registry is shut down: the CachedGauges stop scheduling refreshes.
Teardown ==
    /\ process = "alive"
    /\ ~tornDown
    /\ tornDown' = TRUE
    /\ UNCHANGED <<now, gauge, refresh, process>>
    /\ UNCHANGED driverVars

\* One millisecond passes.
Tick ==
    /\ process = "alive"
    /\ now < MaxTime
    /\ now' = now + 1
    /\ UNCHANGED <<gauge, refresh, process, tornDown>>
    /\ UNCHANGED driverVars

\* The gauges under refresh: the one createOSMetrics registers, built with
\* no arguments, and one built through the catalog with (1, 2).
InitRefresh ==
    /\ now = 0
    /\ gauge = << Factory(CpuName, Undefined, Undefined),
                  Factory(CpuName, Val(1), Val(2)) >>
    /\ refresh = <<>>
    /\ process = "alive"
    /\ tornDown = FALSE

NextRefresh(maxTick, maxRefresh) ==
    \/ \E g \in 1..Len(gauge), m \in CpuAverageOutcomes(maxTick) :
          RefreshCallback(g, m, maxRefresh)
    \/ \E r \in 1..Len(refresh), m \in CpuAverageOutcomes(maxTick) :
          SampleTimeout(r, m)
    \/ Teardown
    \/ Tick

InitDriver ==
    /\ pc = "idle"
    /\ argDimensions = Undefined
    /\ argInterval = Undefined
    /\ customDimensions = Undefined
    /\ reportingIntervalInSeconds = 0
    /\ idx = 0
    /\ factoryCalls = <<>>
    /\ registerCalls = <<>>
    /\ registry = <<>>
    /\ failedAt = 0
    /\ heapNext = 2
    /\ built = <<>>

InitRefreshIdle ==
    /\ now = 0
    /\ gauge = <<>>
    /\ refresh = <<>>
    /\ process = "alive"
    /\ tornDown = FALSE

Init == InitDriver /\ InitRefreshIdle

Next ==
    \/ \E d \in DimensionArgs, i \in IntervalArgs : Call(d, i)
    \/ \E ok \in BOOLEAN : Iterate(ok)
    \/ Return
    \/ \E u \in IntervalArgs, s \in SampleArgs : DirectFactory(u, s)

Spec == Init /\ [][Next]_vars

InitCpu == InitDriver /\ InitRefresh

\* Several refreshes in flight, over the small samples.
NextRefreshMany == NextRefresh(SmallTick, MaxRefresh)
SpecRefresh == InitCpu /\ [][NextRefreshMany]_vars

\* One refresh, over every pair of samples up to MaxTick.
NextRefreshOne == NextRefresh(MaxTick, 1)
SpecSample == InitCpu /\ [][NextRefreshOne]_vars

----------------------------------------------------------------------------
\* Properties of createOSMetrics and of the catalog (checked under Spec)

CatalogNames ==
    { "node.os.loadavg.1m", "node.os.loadavg.5m", "node.os.loadavg.15m",
      "node.os.freemem", "node.os.totalmem", "node.os.uptime",
      "node.os.cpu.all-cores-avg" }

Range(s) == { s[k] : k \in 1..Len(s) }

\* C1: when createOSMetrics returns (no register call failed) it has made
\* exactly 7 register calls, one per catalog name and none twice, all with
\* the same dimensions (the caller's object itself, or one fresh empty
\* mapping when no dimensions were passed) and the same interval (the
\* caller's value, or 30 when it was absent or falsy).
C1_SevenRegistrationsSharedArguments ==
    pc = "returned" =>
        /\ Len(registerCalls) = 7
        /\ { c.name : c \in Range(registerCalls) } = CatalogNames
        /\ \A j, k \in 1..Len(registerCalls) :
              j # k => registerCalls[j].name # registerCalls[k].name
        /\ \A c \in Range(registerCalls) :
              /\ c.dimensions = registerCalls[1].dimensions
              /\ IF argDimensions = Undefined
                 THEN c.dimensions.tags = "{}" /\ c.dimensions.ref # CallerObject("{}").ref
                 ELSE c.dimensions = argDimensions[1]
              /\ IF argInterval = Undefined \/ argInterval = Val(0)
                 THEN c.interval = 30
                 ELSE c.interval = argInterval[1]
        /\ registry = registerCalls

C1_Witness ==
    /\ pc = "returned"
    /\ argDimensions = Undefined
    /\ argInterval = Undefined
    /\ Len(registry) = 7
    /\ registry[7].interval = 30

\* C2: when the k-th register call throws, createOSMetrics ends by throwing
\* (nothing catches the failure), the k-1 earlier entries stay registered,
\* and no register call and no factory invocation follows the k-th.
C2_StopsAtFirstRegisterFailure ==
    failedAt # 0 =>
        /\ pc = "threw"
        /\ Len(registerCalls) = failedAt
        /\ Len(factoryCalls) = failedAt
        /\ registry = SubSeq(registerCalls, 1, failedAt - 1)

C2_Witness ==
    /\ failedAt = 3
    /\ pc = "threw"
    /\ Len(registry) = 2
    /\ Len(registerCalls) = 3

\* C3 as stated: no CachedGauge is built and no register call is made with
\* an interval <= 0.
C3_NoNonPositiveInterval ==
    /\ \A b \in Range(built) :
          b.metric.updateIntervalInSeconds > 0 /\ b.metric.sampleTimeInSeconds > 0
    /\ \A c \in Range(registerCalls) : c.interval > 0

\* C3 as amended: an absent or zero interval is replaced by its default (30
\* for updateIntervalInSeconds and for intervalSeconds, 5 for
\* sampleTimeInSeconds) and never rejected; a negative interval is truthy
\* and is passed on unchanged. No CachedGauge is built and no register call
\* is made with an interval of 0, and createOSMetrics throws only when
\* register does.
C3_ZeroDefaultedNegativeKept ==
    /\ \A b \in Range(built) :
          /\ b.metric.updateIntervalInSeconds =
                (IF b.u = Undefined \/ b.u = Val(0) THEN 30 ELSE b.u[1])
          /\ b.metric.sampleTimeInSeconds =
                (IF b.s = Undefined \/ b.s = Val(0) THEN 5 ELSE b.s[1])
          /\ b.metric.updateIntervalInSeconds # 0
          /\ b.metric.sampleTimeInSeconds # 0
    /\ \A c \in Range(registerCalls) :
          /\ c.interval = (IF argInterval = Undefined \/ argInterval = Val(0)
                           THEN 30 ELSE argInterval[1])
          /\ c.interval # 0
    /\ pc = "threw" => failedAt # 0

C3_Witness ==
    /\ \E b \in Range(built) :
          /\ b.u = Val(0) /\ b.metric.updateIntervalInSeconds = 30
          /\ b.s = Val(-5) /\ b.metric.sampleTimeInSeconds = -5
    /\ pc = "returned"
    /\ argInterval = Val(0)
    /\ registerCalls[1].interval = 30

C9_DriverDoesNotPlumbInterval ==
    /\ \A f \in Range(factoryCalls) : f.arg = Undefined
    /\ \A c \in Range(registerCalls) :
          c.name = "node.os.cpu.all-cores-avg" =>
              /\ c.metric.kind = "CachedGauge"
              /\ c.metric.updateIntervalInSeconds = 30
              /\ c.metric.sampleTimeInSeconds = 5

C9_Witness ==
    /\ pc = "returned"
    /\ argInterval = Val(10)
    /\ registry[7].name = "node.os.cpu.all-cores-avg"
    /\ registry[7].interval = 10
    /\ registry[7].metric.updateIntervalInSeconds = 30

----------------------------------------------------------------------------
\* Properties of the CPU refresh (checked under SpecRefresh and SpecSample)

RefreshIds == 1..Len(refresh)

\* The instant the start sample of a refresh in flight was taken: the
\* executor arms the timer in the same turn.
StartedAt(r) == refresh[r].timer[1].setAt

\* C5: every refresh takes the start sample, waits sampleTimeInSeconds
\* seconds, takes the end sample, computes and only then publishes: the end
\* sample is taken no earlier than sampleTimeInSeconds seconds (1000 ms
\* each) after the start sample, and a refresh is resolved only by the step
\* that takes its end sample.
C5_EndSampleAfterWaitInSeconds ==
    [][ \A r \in RefreshIds :
          /\ \A m \in Samples(MaxTick) :
                SampleTimeout(r, Val(m)) =>
                    now - StartedAt(r) >= 1000 * gauge[refresh[r].g].sampleTimeInSeconds
          /\ (refresh[r].promise = "pending" /\ refresh'[r].promise = "resolved") =>
                \E m \in Samples(MaxTick) : SampleTimeout(r, Val(m))
      ]_vars

\* C6: an OS read failure in the start or in the end sample rejects the
\* refresh's promise: it is never an uncaught exception (the process stays
\* alive, so the next scheduled refresh runs) and it never leaves a refresh
\* whose timer has run with a promise still pending.
C6_ReadFailureRejectsRefresh ==
    /\ process = "alive"
    /\ \A r \in RefreshIds :
          refresh[r].timer = Undefined => refresh[r].promise \in { "resolved", "rejected" }

\* C7: once the registry is torn down the in-flight sample timer is
\* cancelled: no timer callback runs, so no end sample is taken and no
\* refresh is resolved after teardown.
C7_TeardownCancelsSampleTimer ==
    [][ tornDown =>
          \A r \in RefreshIds :
              /\ \A m \in Samples(MaxTick) : ~SampleTimeout(r, Val(m))
              /\ refresh'[r].promise = refresh[r].promise
      ]_vars

C10_RefreshesShareNoState ==
    [][ /\ Len(refresh') >= Len(refresh)
        /\ \A r \in RefreshIds :
              /\ refresh[r].promise # "pending" => refresh'[r] = refresh[r]
              /\ refresh'[r].startMeasure \in { refresh[r].startMeasure, Undefined }
              /\ refresh'[r].promise = "resolved" /\ refresh[r].promise = "pending" =>
                    /\ \A q \in RefreshIds : q # r => refresh'[q] = refresh[q]
                    /\ \E m \in Samples(SmallTick) :
                          /\ SampleTimeout(r, Val(m))
                          /\ refresh'[r].value =
                                Val(calculateCpuUsagePercent(refresh[r].startMeasure[1], m))
      ]_vars

\* The second refresh, of the other gauge, has resolved from its own
\* samples ({0,0} to {0,1}: 100) while the first, holding the start sample
\* {1,1}, is still between its two samples.
C10_Witness ==
    /\ Len(refresh) = 2
    /\ refresh[1].g = 1
    /\ refresh[1].promise = "pending"
    /\ refresh[1].timer # Undefined
    /\ refresh[1].startMeasure = Val([ idle |-> 1, total |-> 1 ])
    /\ refresh[2].g = 2
    /\ refresh[2].promise = "resolved"
    /\ refresh[2].value = Val(Percent(100, 1))

====
